---- MODULE Spec2Model ----
(***************************************************************************)
(* DeepSpeedTransformerInference (ds_transformer.py): the class-level      *)
(* layer counter, the lazily loaded kernel module, the caller's config     *)
(* objects, the constructed layers with their stored key/value cache, and  *)
(* the forward pass as one step.  The attention, MLP, layer-norm and       *)
(* workspace kernels are external: a call to one is recorded, and its      *)
(* result is a symbolic value that names the call and its operands.        *)
(***************************************************************************)
EXTENDS Integers, Sequences, FiniteSets

\* Bounds of the exploration: construction attempts and forward calls, for
\* the life-cycle specification (Spec) and for the argument specification
\* (SpecIO), which explores every group of forward's arguments.
MaxLayers == 2
MaxForward == 2
MaxLayersIO == 1
MaxForwardIO == 1

\* ------------------------------------------------------------------ values

\* Python's None.
None == [id |-> "None"]

\* Tensors a caller may pass for each keyword argument.
Tensor(name) == [id |-> name]

\* torch dtypes of the input tensor.
DTypes == {"float", "half", "bfloat16"}

\* A Python tuple.
PyTuple(elems) == [tuple |-> elems]

IsTuple(v) == "tuple" \in DOMAIN v

BOOL == {FALSE, TRUE}

\* config.fp16, config.q_int8, config.pre_layer_norm, config.return_tuple:
\* the settings the caller writes into every config object it creates.
Settings == [fp16 : BOOL, q_int8 : BOOL, pre_layer_norm : BOOL, return_tuple : BOOL]

\* Positional and keyword arguments of forward.  encoder_output,
\* enc_dec_attn_mask, encoder_hidden_states, encoder_attention_mask, alibi and
\* output_attentions are handed to the attention module unchanged or unused.
AllArgs ==
    [seq : {1, 2},
     dtype : DTypes,
     input_mask : {None, Tensor("input_mask")},
     attention_mask : {None, Tensor("attention_mask")},
     head_mask : {None, Tensor("head_mask")},
     layer_head_mask : {None, Tensor("layer_head_mask")},
     layer_past : {None, Tensor("layer_past")},
     past_key_value : {None, Tensor("past_key_value")},
     get_key_value : BOOL,
     get_present : BOOL,
     use_cache : BOOL]

DefaultArgs ==
    [seq |-> 1, dtype |-> "float",
     input_mask |-> None, attention_mask |-> None,
     head_mask |-> None, layer_head_mask |-> None,
     layer_past |-> None, past_key_value |-> None,
     get_key_value |-> FALSE, get_present |-> FALSE, use_cache |-> FALSE]

SameOutside(a, fields) ==
    \A f \in (DOMAIN DefaultArgs) \ fields : a[f] = DefaultArgs[f]

\* Calls that vary the prompt length and the two cache arguments; every other
\* argument keeps the default of the signature.
CacheArgs ==
    {a \in AllArgs :
        \/ SameOutside(a, {"seq", "layer_past"})
        \/ SameOutside(a, {"layer_past", "past_key_value"})}

\* Calls that vary one group of arguments at a time, the others keeping the
\* defaults of the signature (the input is then a float tensor of length 1).
ForwardArgs ==
    {a \in AllArgs :
        \/ a \in CacheArgs
        \/ SameOutside(a, {"seq", "dtype"})
        \/ SameOutside(a, {"input_mask", "attention_mask"})
        \/ SameOutside(a, {"head_mask", "layer_head_mask"})
        \/ SameOutside(a, {"get_key_value", "get_present", "use_cache"})}

\* ------------------------------------------------------------------- state

VARIABLES
    layer_id,               \* DeepSpeedTransformerInference.layer_id
    inference_cuda_module,  \* the module global: "None" or "loaded"
    settings,               \* the settings of this model's config objects
    configs,                \* the caller's config objects: their layer_id
    layers,                 \* the constructed layers, in construction order
    allocate_calls,         \* invocations of allocate_workspace so far
    attention_calls,        \* invocations of self.attention so far
    last                    \* the outcome of the latest Construct or forward

vars == <<layer_id, inference_cuda_module, settings, configs, layers,
          allocate_calls, attention_calls, last>>

NoCall == [kind |-> "none"]

Init ==
    /\ layer_id = 0
    /\ inference_cuda_module = "None"
    /\ settings \in Settings
    /\ configs = <<>>
    /\ layers = <<>>
    /\ allocate_calls = 0
    /\ attention_calls = 0
    /\ last = NoCall

\* ------------------------------------------------------------ construction

\* The config objects a caller can hand to the constructor: one it already
\* holds, or a new one.
ConfigChoices == 1 .. (Len(configs) + 1)

\* self.config.layer_id = DeepSpeedTransformerInference.layer_id
AssignLayerId(cs, c, id) ==
    IF c \in 1 .. Len(cs)
    THEN [cs EXCEPT ![c] = [layer_id |-> id]]
    ELSE Append(cs, [layer_id |-> id])

\* __init__ up to the kernel load: the index is written into the caller's
\* config and the class counter is incremented before anything can fail.
InitPrefix(c) ==
    /\ c \in ConfigChoices
    /\ configs' = AssignLayerId(configs, c, layer_id)
    /\ layer_id' = layer_id + 1

\* __init__ returning a layer.
Construct(c) ==
    /\ InitPrefix(c)
    /\ inference_cuda_module' = "loaded"
    /\ layers' = Append(layers, [config |-> c,
                                 assigned |-> layer_id,
                                 layer_past |-> None,
                                 calls |-> 0,
                                 prev |-> NoCall])
    /\ last' = [kind |-> "constructed", layer |-> Len(layers) + 1]
    /\ UNCHANGED <<settings, allocate_calls, attention_calls>>

\* __init__ raising because builder.load() fails: only possible while the
\* module global is still None.
ConstructFail(c) ==
    /\ inference_cuda_module = "None"
    /\ InitPrefix(c)
    /\ last' = [kind |-> "load_failed"]
    /\ UNCHANGED <<inference_cuda_module, settings, layers,
                   allocate_calls, attention_calls>>

\* ----------------------------------------------------------------- forward

\* if self.config.layer_id == 0
ShouldAllocate(cfg) == cfg.layer_id = 0

\* get_present = (get_present or get_key_value or use_cache)
GetPresent(a) == a.get_present \/ a.get_key_value \/ a.use_cache

\* input_mask = input_mask if attention_mask is None else attention_mask
ResolveMask(a) ==
    IF a.attention_mask = None THEN a.input_mask ELSE a.attention_mask

\* A forward that never drops the stored cache on a prompt.
ResetOnPrompt_Never(stored, seq) == stored

\* if input.shape[1] > 1: self.layer_past = None
ResetOnPrompt(stored, seq) == IF seq > 1 THEN None ELSE stored

\* A forward that hands attention only the caller's cache argument.
ResolveCache_IgnoreStored(explicit, stored) == explicit

\* layer_past = layer_past if layer_past is not None else self.layer_past
ResolveCache(explicit, stored) ==
    IF explicit # None THEN explicit ELSE stored

\* head_mask = layer_head_mask if layer_head_mask is not None else head_mask
ResolveHeadMask(a) ==
    IF a.layer_head_mask # None THEN a.layer_head_mask ELSE a.head_mask

\* if (fp16 or q_int8) and input.dtype == torch.float: input = input.half()
CastInput(s, dtype) ==
    IF (s.fp16 \/ s.q_int8) /\ dtype = "float" THEN "half" ELSE dtype

\* self.layer_past = presents if layer_past is None else None
NewLayerPast(presents, resolved) ==
    IF resolved = None THEN presents ELSE None

\* ds_layernorm = layer_norm_fp16 if fp16 or q_int8 else layer_norm_fp32
LayerNormKernel(s) ==
    IF s.fp16 \/ s.q_int8 THEN "layer_norm_fp16" ELSE "layer_norm_fp32"

\* A forward that normalizes in the pre-norm configuration instead.
PostNorm_Inverted(s, mlp_out, l, c) ==
    IF s.pre_layer_norm
    THEN [op |-> LayerNormKernel(s), input |-> mlp_out,
          weight |-> [param |-> "norm_w", layer |-> l],
          bias |-> [param |-> "norm_b", layer |-> l],
          epsilon |-> [attr |-> "epsilon", config |-> c],
          dtype |-> mlp_out.dtype]
    ELSE mlp_out

\* if not pre_layer_norm: output = ds_layernorm(output, norm_w, norm_b, eps)
PostNorm(s, mlp_out, l, c) ==
    IF ~s.pre_layer_norm
    THEN [op |-> LayerNormKernel(s), input |-> mlp_out,
          weight |-> [param |-> "norm_w", layer |-> l],
          bias |-> [param |-> "norm_b", layer |-> l],
          epsilon |-> [attr |-> "epsilon", config |-> c],
          dtype |-> mlp_out.dtype]
    ELSE mlp_out

\* A forward that returns the kernels' dtype.
ToDtype_Skip(t, dtype) == t

\* output = output.to(input_type)
ToDtype(t, dtype) == [op |-> "to", input |-> t, dtype |-> dtype]

\* A forward whose return_tuple wraps whatever it is about to return.
PackOutput_WrapAlways(s, output, get_present, presents, attn_mask) ==
    LET o == IF get_present THEN PyTuple(<<output, presents>>) ELSE output
    IN  IF s.return_tuple THEN PyTuple(<<o, attn_mask>>) ELSE o

\* if get_present: output = (output, presents)
\* return output if type(output) is tuple or not return_tuple
\*        else (output, attn_mask)
PackOutput(s, output, get_present, presents, attn_mask) ==
    LET o == IF get_present THEN PyTuple(<<output, presents>>) ELSE output
    IN  IF s.return_tuple
        THEN (IF IsTuple(o) THEN o ELSE PyTuple(<<o, attn_mask>>))
        ELSE o

\* The kernels one forward call invokes, in the order it invokes them.
KernelsInvoked(alloc, mlp_out, normed) ==
    (IF alloc THEN <<"allocate_workspace">> ELSE <<>>)
    \o <<"attention", "mlp">>
    \o (IF normed # mlp_out THEN <<normed.op>> ELSE <<>>)

\* forward on the l-th constructed layer with a tensor input of sequence
\* length a.seq.  The MLP kernel computes in the dtype of the input it is
\* handed, which is the input after the cast of lines 131-133.
Forward(l, a) ==
    /\ l \in 1 .. Len(layers)
    /\ LET L == layers[l]
           cfg == configs[L.config]
           alloc == ShouldAllocate(cfg)
           allocated == IF alloc THEN allocate_calls + 1 ELSE allocate_calls
           get_present == GetPresent(a)
           input_mask == ResolveMask(a)
           stored == ResetOnPrompt(L.layer_past, a.seq)
           layer_past == ResolveCache(a.layer_past, stored)
           head_mask == ResolveHeadMask(a)
           attn_mask == None
           input_type == a.dtype
           n == attention_calls + 1
           presents == PyTuple(<<[key |-> n], [value |-> n]>>)
           mlp_out == [op |-> "mlp", call |-> n,
                       dtype |-> CastInput(settings, a.dtype)]
           normed == PostNorm(settings, mlp_out, l, L.config)
           output == ToDtype(normed, input_type)
           call == [kind |-> "returned",
                    layer |-> l,
                    nth |-> L.calls + 1,
                    args |-> a,
                    stored_on_entry |-> L.layer_past,
                    stored_at_attention |-> stored,
                    kernels |-> KernelsInvoked(alloc, mlp_out, normed),
                    workspace_ready |-> allocated > 0,
                    attention |-> [dtype |-> CastInput(settings, a.dtype),
                                   input_mask |-> input_mask,
                                   head_mask |-> head_mask,
                                   layer_past |-> layer_past,
                                   get_present |-> get_present],
                    presents |-> presents,
                    mlp_out |-> mlp_out,
                    prev |-> L.prev,
                    ret |-> PackOutput(settings, output, get_present,
                                       presents, attn_mask)]
       IN  /\ allocate_calls' = allocated
           /\ attention_calls' = n
           /\ layers' = [layers EXCEPT ![l] =
                            [@ EXCEPT !.layer_past = NewLayerPast(presents, layer_past),
                                      !.calls = @ + 1,
                                      !.prev = [kind |-> "returned",
                                                seq |-> a.seq,
                                                explicit |-> a.layer_past,
                                                presents |-> presents]]]
           /\ last' = call
    /\ UNCHANGED <<layer_id, inference_cuda_module, settings, configs>>

\* forward with a tuple as input: input.size() (line 107) or input.shape
\* (line 120) raises AttributeError before anything is changed, so the
\* isinstance(input, tuple) branch is never reached with a tuple.
ForwardTupleInput(l) ==
    /\ l \in 1 .. Len(layers)
    /\ last' = [kind |-> "raised", error |-> "AttributeError"]
    /\ UNCHANGED <<layer_id, inference_cuda_module, settings, configs, layers,
                   allocate_calls, attention_calls>>

\* The life-cycle specification: any interleaving of constructions and
\* forward calls that vary the prompt length and the cache arguments.
Next ==
    \/ \E c \in 1 .. MaxLayers :
          layer_id < MaxLayers /\ Construct(c)
    \/ \E c \in 1 .. MaxLayers :
          layer_id < MaxLayers /\ ConstructFail(c)
    \/ \E l \in 1 .. MaxLayers, a \in CacheArgs :
          attention_calls < MaxForward /\ Forward(l, a)
    \/ \E l \in 1 .. MaxLayers :
          ForwardTupleInput(l)

Spec == Init /\ [][Next]_vars

\* The argument specification: the same operations, with every group of
\* forward's arguments explored.
NextIO ==
    \/ \E c \in 1 .. MaxLayersIO :
          layer_id < MaxLayersIO /\ Construct(c)
    \/ \E c \in 1 .. MaxLayersIO :
          layer_id < MaxLayersIO /\ ConstructFail(c)
    \/ \E l \in 1 .. MaxLayersIO, a \in ForwardArgs :
          attention_calls < MaxForwardIO /\ Forward(l, a)
    \/ \E l \in 1 .. MaxLayersIO :
          ForwardTupleInput(l)

SpecIO == Init /\ [][NextIO]_vars

\* ------------------------------------------------------------- properties

Returned == last.kind = "returned"

\* The output tensor of the latest forward call's return value.
ReturnedOutput == IF IsTuple(last.ret) THEN last.ret.tuple[1] ELSE last.ret

\* The layer-norm node the post-norm configuration must produce.
IsLayerNormOf(t, mlp_out, l, c) ==
    /\ "op" \in DOMAIN t
    /\ t.op \in {"layer_norm_fp16", "layer_norm_fp32"}
    /\ t.input = mlp_out
    /\ t.weight = [param |-> "norm_w", layer |-> l]
    /\ t.bias = [param |-> "norm_b", layer |-> l]
    /\ t.epsilon = [attr |-> "epsilon", config |-> c]

\* C1: over any constructions and forward calls, allocate_workspace is
\* invoked exactly once in total, in the first forward call of the
\* first-constructed layer, and never again.
C1_AllocatedExactlyOnce ==
    /\ allocate_calls <= 1
    /\ (Returned /\ "allocate_workspace" \in {last.kernels[i] : i \in DOMAIN last.kernels})
          => (last.layer = 1 /\ last.nth = 1)
    /\ (Len(layers) >= 1 /\ layers[1].calls > 0) => allocate_calls = 1

\* C2 as stated: a forward of length 1 without a cache argument, following a
\* forward of length > 1 on the same layer, hands attention an empty cache.
C2_DecodeAfterPromptGetsEmptyCache ==
    (/\ Returned
     /\ last.prev.kind = "returned"
     /\ last.prev.seq > 1
     /\ last.args.seq = 1
     /\ last.args.layer_past = None)
        => last.attention.layer_past = None

\* C2 as amended: a forward of length 1 without a layer_past argument,
\* following a forward of length > 1 on the same layer, hands attention the
\* key/value pair that previous call produced when the previous call had no
\* layer_past argument, and an empty cache when it had one.
C2_DecodeAfterPromptGetsPromptCache ==
    (/\ Returned
     /\ last.prev.kind = "returned"
     /\ last.prev.seq > 1
     /\ last.args.seq = 1
     /\ last.args.layer_past = None)
        => last.attention.layer_past =
              (IF last.prev.explicit = None THEN last.prev.presents ELSE None)

C2_Witness ==
    /\ Returned
    /\ last.prev.kind = "returned"
    /\ last.prev.seq > 1
    /\ last.prev.explicit = None
    /\ last.args.seq = 1
    /\ last.args.layer_past = None
    /\ last.attention.layer_past = last.prev.presents
    /\ last.attention.layer_past # None

\* C3 as stated: with get_present, get_key_value or use_cache the return value
\* is (output, (key, value)) whatever return_tuple is; with all three false it
\* is the bare output when return_tuple is off and a one-element tuple holding
\* the output when return_tuple is on.
C3_ReturnShapeSingleton ==
    Returned =>
        LET a == last.args
            out == ReturnedOutput
        IN  last.ret =
              (IF a.get_present \/ a.get_key_value \/ a.use_cache
               THEN PyTuple(<<out, last.presents>>)
               ELSE IF settings.return_tuple THEN PyTuple(<<out>>) ELSE out)

\* C3 as amended: with all three flags false and return_tuple on, the return
\* value is the two-element tuple (output, None); the other cases as stated.
C3_ReturnShape ==
    Returned =>
        LET a == last.args
            out == ReturnedOutput
        IN  /\ ~IsTuple(out)
            /\ last.ret =
                 (IF a.get_present \/ a.get_key_value \/ a.use_cache
                  THEN PyTuple(<<out, last.presents>>)
                  ELSE IF settings.return_tuple
                       THEN PyTuple(<<out, None>>)
                       ELSE out)

C3_Witness ==
    /\ Returned
    /\ settings.return_tuple
    /\ ~last.args.get_present /\ ~last.args.get_key_value /\ ~last.args.use_cache
    /\ last.ret = PyTuple(<<ReturnedOutput, None>>)

\* C4: the k-th constructed layer holds index k (from zero), and the index
\* its forward reads from its config is still that one after any later
\* construction attempt.
C4_IndexIsConstructionOrder ==
    \A k \in 1 .. Len(layers) :
        /\ layers[k].assigned = k - 1
        /\ configs[layers[k].config].layer_id = k - 1

\* C5: whenever a forward invokes attention, allocate_workspace has been
\* invoked before, in an earlier call or earlier in the same call.
C5_WorkspaceBeforeAttention ==
    Returned => last.workspace_ready

\* C6: the dtype of the returned output tensor is the dtype the input had on
\* entry, in every precision mode and whether or not the input was cast.
C6_OutputDtypeIsInputDtype ==
    Returned => ReturnedOutput.dtype = last.args.dtype

C6_Witness ==
    /\ Returned
    /\ last.args.dtype = "float"
    /\ last.attention.dtype = "half"
    /\ ReturnedOutput.dtype = "float"

\* C7: with pre_layer_norm false the output is layer_norm(MLP output, norm_w,
\* norm_b, epsilon) cast to the input's dtype; with pre_layer_norm true no
\* layer-norm kernel runs after the MLP and the output is the MLP output cast
\* to the input's dtype.
C7_PostNormPlacement ==
    Returned =>
        LET out == ReturnedOutput
            L == layers[last.layer]
            n == Len(last.kernels)
        IN  /\ out.op = "to"
            /\ out.dtype = last.args.dtype
            /\ IF settings.pre_layer_norm
               THEN /\ out.input = last.mlp_out
                    /\ last.kernels[n] = "mlp"
               ELSE /\ IsLayerNormOf(out.input, last.mlp_out, last.layer, L.config)
                    /\ last.kernels[n] = out.input.op
                    /\ last.kernels[n - 1] = "mlp"

C7_Witness ==
    /\ Returned
    /\ ~settings.pre_layer_norm
    /\ last.args.dtype = "float"
    /\ last.attention.dtype = "half"
    /\ ReturnedOutput.input.op = "layer_norm_fp16"
    /\ ReturnedOutput.input.input = last.mlp_out

\* C8: after a forward without a cache argument the layer's stored cache is
\* the (key, value) pair of that call; after a forward with a cache argument
\* the stored cache is empty.
C8_StoredCacheAfterForward ==
    Returned =>
        layers[last.layer].layer_past =
            (IF last.args.layer_past = None THEN last.presents ELSE None)

\* C9: a forward of length > 1 without a cache argument resets the stored
\* cache before attention runs and hands attention an empty cache, whatever
\* the stored cache was.
C9_PromptResetsCache ==
    (Returned /\ last.args.seq > 1 /\ last.args.layer_past = None)
        => /\ last.stored_at_attention = None
           /\ last.attention.layer_past = None

C9_Witness ==
    /\ Returned
    /\ last.args.seq > 1
    /\ last.args.layer_past = None
    /\ last.stored_on_entry # None
    /\ last.attention.layer_past = None

\* C10: each aliased input reaches attention by precedence: a supplied cache
\* overrides the stored one, an alias supplied alone is used, and of two
\* supplied names the one the code prefers wins (attention_mask over
\* input_mask, layer_head_mask over head_mask, layer_past over
\* past_key_value).
C10_AliasPrecedence ==
    Returned =>
        LET a == last.args
            got == last.attention
        IN  /\ got.input_mask =
                 (IF a.attention_mask # None THEN a.attention_mask ELSE a.input_mask)
            /\ got.head_mask =
                 (IF a.layer_head_mask # None THEN a.layer_head_mask ELSE a.head_mask)
            /\ got.layer_past =
                 (IF a.layer_past # None THEN a.layer_past
                  ELSE IF a.past_key_value # None THEN a.past_key_value
                  ELSE last.stored_at_attention)

====
